---- MODULE Spec2Model ----
(***************************************************************************)
(* The forwarding gateway of lawyer-console                                *)
(* (src/app/api/backend/[...path]/route.ts, the revision with              *)
(* fetchWithTimeout, lines 132-291): the handler as a state machine with   *)
(* one action per stretch of code between two awaits, and its pure parts   *)
(* (URL construction, header filtering, response normalisation) as         *)
(* operators.                                                              *)
(*                                                                         *)
(* Text is a sequence of units.  A unit is one character, one percent      *)
(* escape ("%20") or a run of characters the code never looks into         *)
(* ("api.example.com"); the places the code does look at (a trailing "/",  *)
(* "&", "=", a leading "{") are always units of their own.                 *)
(***************************************************************************)
EXTENDS Integers, Sequences, FiniteSets, TLC

VARIABLES
    apiBase,    \* API_BASE: the value read from process.env.API_BASE_URL
    req,        \* the inbound request: method, path, query, headers, body
    pc,         \* the handler's position
    dbg,        \* the debug flag derived from the query
    target,     \* the resolved upstream URL
    timeoutMs,  \* the first attempt's deadline
    init,       \* the outbound RequestInit
    calls,      \* the upstream calls issued so far, each with how it ended
    upstream,   \* the upstream Response the handler obtained
    upstreamBuf, \* buf: the upstream body once read
    bodyUsed,   \* req.bodyUsed: the inbound body has been read
    resp,       \* the Response returned to the caller
    pair,       \* the locals of each of several invocations running at once
    panel,      \* DocumentsPanel (thread/[id]/page.tsx): state, ref, calls
    inbox,      \* approveLatestDraft (inbox/page.tsx): its run
    settings    \* SettingsPage (settings/page.tsx): state and the run of save

\* the variables of the one invocation of the handler
handlerVars == <<apiBase, req, pc, dbg, target, timeoutMs, init, calls, upstream,
                 upstreamBuf, bodyUsed, resp>>

\* the variables of the other components
otherVars == <<pair, panel, inbox, settings>>

vars == <<handlerVars, otherVars>>

----------------------------------------------------------------------------
(* Bounds of the model. *)

\* longest inbound path, in segments
MaxSegs == 2
\* most "&"-separated pieces of an inbound query string
MaxParams == 2
\* most header fields of an inbound request
MaxInboundHeaders == 3
\* most header fields of an upstream response besides content-type
MaxUpstreamHeaders == 1

----------------------------------------------------------------------------
(* Sequences. *)

SeqsUpTo(S, n) == UNION {[1..k -> S] : k \in 0..n}

\* Array.prototype.join / the "&" between the pieces of a query
RECURSIVE Join(_, _)
Join(ss, sep) ==
    IF ss = <<>> THEN <<>>
    ELSE IF Len(ss) = 1 THEN Head(ss)
    ELSE Head(ss) \o <<sep>> \o Join(Tail(ss), sep)

\* String.prototype.split on a one-unit separator
RECURSIVE Split(_, _)
Split(s, sep) ==
    IF \A i \in 1..Len(s) : s[i] # sep THEN <<s>>
    ELSE LET i == CHOOSE j \in 1..Len(s) : s[j] = sep /\ \A k \in 1..(j - 1) : s[k] # sep
         IN  <<SubSeq(s, 1, i - 1)>> \o Split(SubSeq(s, i + 1, Len(s)), sep)

----------------------------------------------------------------------------
(* URL construction: buildUpstreamUrl and the handler's use of URL and     *)
(* URLSearchParams.                                                        *)

\* base.replace(/\/+$/, "")
RECURSIVE StripTrailingSlashes(_)
StripTrailingSlashes(b) ==
    IF b # <<>> /\ b[Len(b)] = "/"
    THEN StripTrailingSlashes(SubSeq(b, 1, Len(b) - 1))
    ELSE b

\* encodeURIComponent, one unit: everything but A-Z a-z 0-9 - _ . ! ~ * ' ( )
\* is escaped
EncodeComponentUnit(c) ==
    CASE c = " " -> "%20"
      [] c = "/" -> "%2F"
      [] c = "?" -> "%3F"
      [] c = "&" -> "%26"
      [] c = "=" -> "%3D"
      [] c = "+" -> "%2B"
      [] c = "%" -> "%25"
      [] OTHER   -> c

encodeURIComponent(s) == [i \in 1..Len(s) |-> EncodeComponentUnit(s[i])]

buildUpstreamUrl(base, segs, search) ==
    LET b == StripTrailingSlashes(base)
        p == Join([i \in 1..Len(segs) |-> encodeURIComponent(segs[i])], "/")
    IN  b \o <<"/">> \o p \o (IF search # <<>> THEN <<"?">> \o search ELSE <<>>)

\* application/x-www-form-urlencoded parsing, one unit: "+" is a space and
\* a percent escape is its character
FormDecodeUnit(u) ==
    CASE u = "+"   -> " "
      [] u = "%20" -> " "
      [] u = "%2F" -> "/"
      [] u = "%5F" -> "_"
      [] u = "%7E" -> "~"
      [] u = "%3D" -> "="
      [] u = "%26" -> "&"
      [] u = "%2B" -> "+"
      [] u = "%25" -> "%"
      [] OTHER     -> u

FormDecode(s) == [i \in 1..Len(s) |-> FormDecodeUnit(s[i])]

\* application/x-www-form-urlencoded serialising, one unit: a space is "+",
\* everything but A-Z a-z 0-9 * - . _ is escaped
FormEncodeUnit(c) ==
    CASE c = " " -> "+"
      [] c = "/" -> "%2F"
      [] c = "~" -> "%7E"
      [] c = "=" -> "%3D"
      [] c = "&" -> "%26"
      [] c = "+" -> "%2B"
      [] c = "%" -> "%25"
      [] OTHER   -> c

FormEncode(s) == [i \in 1..Len(s) |-> FormEncodeUnit(s[i])]

\* one "&"-separated piece of a query as a name-value pair: split at the
\* first "=", a piece without "=" has the empty value
ParsePiece(piece) ==
    LET parts == Split(piece, "=")
        name  == Head(parts)
        value == IF Len(parts) = 1 THEN <<>>
                 ELSE SubSeq(piece, Len(name) + 2, Len(piece))
    IN  [name |-> FormDecode(name), value |-> FormDecode(value)]

\* new URL(req.url).searchParams: the list of name-value pairs of the query;
\* empty pieces ("a=1&&b=2") are skipped
RECURSIVE ParsePieces(_)
ParsePieces(pieces) ==
    IF pieces = <<>> THEN <<>>
    ELSE IF Head(pieces) = <<>> THEN ParsePieces(Tail(pieces))
    ELSE <<ParsePiece(Head(pieces))>> \o ParsePieces(Tail(pieces))

searchParams(query) == IF query = <<>> THEN <<>> ELSE ParsePieces(Split(query, "&"))

\* the reserved query parameter
DbgName == <<"_", "_", "d", "b", "g">>

\* URLSearchParams.prototype.get: the first value under the name, or null
\* (here: no value, told apart by HasParam)
HasParam(params, name) == \E i \in 1..Len(params) : params[i].name = name

GetParam(params, name) ==
    LET i == CHOOSE j \in 1..Len(params) :
                 params[j].name = name /\ \A k \in 1..(j - 1) : params[k].name # name
    IN  params[i].value

\* a delete that stops at the first pair under the name
RECURSIVE DeleteFirstParam(_, _)
DeleteFirstParam(params, name) ==
    IF params = <<>> THEN <<>>
    ELSE IF Head(params).name = name THEN Tail(params)
    ELSE <<Head(params)>> \o DeleteFirstParam(Tail(params), name)

\* URLSearchParams.prototype.delete: every pair under the name goes
RECURSIVE DeleteParam(_, _)
DeleteParam(params, name) ==
    IF params = <<>> THEN <<>>
    ELSE IF Head(params).name = name THEN DeleteParam(Tail(params), name)
    ELSE <<Head(params)>> \o DeleteParam(Tail(params), name)

\* URLSearchParams.prototype.toString
SerializeParams(params) ==
    Join([i \in 1..Len(params) |->
            FormEncode(params[i].name) \o <<"=">> \o FormEncode(params[i].value)], "&")

\* const dbg = urlObj.searchParams.get("__dbg") === "1"
DebugFlag(query) ==
    LET ps == searchParams(query)
    IN  HasParam(ps, DbgName) /\ GetParam(ps, DbgName) = <<"1">>

\* urlObj.searchParams.delete("__dbg"); urlObj.searchParams.toString()
ForwardedSearch(query) == SerializeParams(DeleteParam(searchParams(query), DbgName))

\* const target = buildUpstreamUrl(API_BASE, ctx.params.path, ...)
ResolveTarget(base, path, query) == buildUpstreamUrl(base, path, ForwardedSearch(query))

----------------------------------------------------------------------------
(* Headers.  A Headers object is a function from lower-case header names   *)
(* to values: the Headers class keeps names in lower case.                 *)

\* String.prototype.toLowerCase on a header name
toLowerCase(k) ==
    CASE k = "Authorization" -> "authorization"
      [] k = "Content-Type"  -> "content-type"
      [] k = "Accept"        -> "accept"
      [] k = "Host"          -> "host"
      [] k = "Connection"    -> "connection"
      [] OTHER               -> k

\* Headers.prototype.set: the name is stored in lower case
HeadersSet(h, k, v) ==
    [n \in DOMAIN h \cup {toLowerCase(k)} |-> IF n = toLowerCase(k) THEN v ELSE h[n]]

HeadersHas(h, k) == toLowerCase(k) \in DOMAIN h

\* Headers.prototype.get(k) || ""
HeadersGetOrEmpty(h, k) == IF HeadersHas(h, k) THEN h[toLowerCase(k)] ELSE ""

\* new Headers()
EmptyHeaders == [n \in {} |-> ""]

\* the allow-list of pickHeaders
allow ==
    {"authorization", "content-type", "accept", "cookie", "x-requested-with",
     "x-api-key", "user-agent", "accept-language", "origin", "referer"}

DefaultAccept == "application/json, */*;q=0.1"

\* a copy without the filter
CopyEveryHeader(inbound) == inbound

\* req.headers.forEach((v, k) => { if (allow.has(k.toLowerCase())) h.set(k, v) })
CopyAllowed(inbound) ==
    [k \in {n \in DOMAIN inbound : toLowerCase(n) \in allow} |-> inbound[k]]

\* a filter that injects nothing
pickHeadersNoDefault(inbound) == CopyAllowed(inbound)

\* lines 145-164
pickHeaders(inbound) ==
    LET h == CopyAllowed(inbound)
    IN  IF ~HeadersHas(h, "accept") THEN HeadersSet(h, "accept", DefaultAccept) ELSE h

----------------------------------------------------------------------------
(* The handler's view of the request. *)

Methods == {"GET", "HEAD", "POST", "PUT", "PATCH", "DELETE", "OPTIONS"}

\* !["GET", "HEAD", "OPTIONS"].includes(method)
isWrite(method) == method \notin {"GET", "HEAD", "OPTIONS"}

\* ct.startsWith("multipart/form-data"), over the content types of the model
isMultipart(ct) == ct \in {"multipart/form-data", "multipart/form-data; boundary=x"}

\* a deadline chosen by the method first: a multipart write gets 45 s
FirstTimeoutMethodFirst(method, inbound) ==
    IF ~isWrite(method) THEN 30000
    ELSE IF isMultipart(HeadersGetOrEmpty(inbound, "content-type")) THEN 90000
    ELSE 45000

\* const timeoutMs = isMultipart ? 90_000 : isWrite ? 45_000 : 30_000
FirstTimeout(method, inbound) ==
    IF isMultipart(HeadersGetOrEmpty(inbound, "content-type")) THEN 90000
    ELSE IF isWrite(method) THEN 45000
    ELSE 30000

Min(a, b) == IF a < b THEN a ELSE b

\* a retry under the deadline of the first attempt
RetryTimeoutSame(ms) == ms

\* Math.min(timeoutMs + 30_000, 120_000)
RetryTimeout(ms) == Min(ms + 30000, 120000)

\* a check that forgets HEAD
BodilessGetOnly(method) == method = "GET"

\* ["GET", "HEAD"].includes(method): no outbound body
Bodiless(method) == method \in {"GET", "HEAD"}

NoBody == [present |-> FALSE, bytes |-> <<>>]

\* the RequestInit of lines 195-201, its body given
RequestInit(method, inbound, body) ==
    [method |-> method, headers |-> pickHeaders(inbound), body |-> body]


----------------------------------------------------------------------------
(* Upstream bodies and their text. *)

\* a unit standing for 192 bytes of padding inside a JSON string
Pad == "<192 bytes>"
\* a unit standing for 200 bytes of spaces
Indent == "<200 spaces>"
\* a byte that is no valid UTF-8
BadByte == "<0xFF>"
\* U+FFFD, what TextDecoder writes for it
Replacement == "<U+FFFD>"

\* the bytes of a unit
ByteLen(u) ==
    CASE u = Indent                 -> 200
      [] u = Pad                    -> 192
      [] u = "Internal Server Error" -> 21
      [] u = "\"detail\":\"nope\""  -> 15
      [] u = "\"error\":\"bad\""    -> 13
      [] u = "\"proxy\":\"own\""    -> 13
      [] u = "\"pad\":\""           -> 7
      [] u = "oops"                 -> 4
      [] u = "1,2"                  -> 3
      [] u = "42"                   -> 2
      [] OTHER                      -> 1

\* ArrayBuffer.prototype.slice(0, n); the bodies of the model have a unit
\* boundary at byte n whenever they are longer
RECURSIVE SliceBytes(_, _)
SliceBytes(b, n) ==
    IF b = <<>> \/ ByteLen(Head(b)) > n THEN <<>>
    ELSE <<Head(b)>> \o SliceBytes(Tail(b), n - ByteLen(Head(b)))

PeekBytes == 200

\* new TextDecoder().decode(bytes): not fatal, a malformed byte becomes U+FFFD
TextDecode(b) == [i \in 1..Len(b) |-> IF b[i] = BadByte THEN Replacement ELSE b[i]]

IsSpace(u) == u \in {" ", "\n", Indent}

RECURSIVE TrimStart(_)
TrimStart(t) == IF t # <<>> /\ IsSpace(Head(t)) THEN TrimStart(Tail(t)) ELSE t

RECURSIVE TrimEnd(_)
TrimEnd(t) ==
    IF t # <<>> /\ IsSpace(t[Len(t)]) THEN TrimEnd(SubSeq(t, 1, Len(t) - 1)) ELSE t

\* String.prototype.trim
Trim(t) == TrimEnd(TrimStart(t))

\* String.prototype.startsWith on a one-character prefix
StartsWith(t, c) == t # <<>> /\ Head(t) = c

\* the bodies an upstream sends in the model
BodyEmpty     == <<>>
BodyText      == <<"Internal Server Error">>
BodyDetail    == <<"{", "\"detail\":\"nope\"", "}">>
BodyNoDetail  == <<"{", "\"error\":\"bad\"", "}">>
BodyArray     == <<"[", "1,2", "]">>
BodyNumber    == <<"42">>
BodyMalformed == <<"{", "oops">>
BodySpaced    == <<" ", "\n", "{", "\"detail\":\"nope\"", "}", "\n">>
BodyOwnProxy  == <<"{", "\"proxy\":\"own\"", ",", "\"detail\":\"nope\"", "}">>
BodyLong      == <<"{", "\"pad\":\"", Pad, "\"", "}">>
BodyBinary    == <<BadByte, "oops">>
BodyIndented  == <<Indent, "{", "\"detail\":\"nope\"", "}">>

UpstreamBodies ==
    {BodyEmpty, BodyText, BodyDetail, BodyNoDetail, BodyArray, BodyNumber,
     BodyMalformed, BodySpaced, BodyOwnProxy, BodyLong, BodyBinary, BodyIndented}

\* a string as a JSON value
JString(s) == [type |-> "string", text |-> s]

\* JSON.parse over the bodies of the model: ok says whether it returns, props
\* are the own enumerable properties of the value it returns (what a spread
\* copies: the members of an object, the indices of an array, none of a number)
JSONParse(t) ==
    LET u == Trim(t)
    IN  CASE u = BodyDetail   -> [ok |-> TRUE, type |-> "object",
                                  props |-> [k \in {"detail"} |-> JString(<<"nope">>)]]
          [] u = BodyNoDetail -> [ok |-> TRUE, type |-> "object",
                                  props |-> [k \in {"error"} |-> JString(<<"bad">>)]]
          [] u = BodyOwnProxy -> [ok |-> TRUE, type |-> "object",
                                  props |-> [k \in {"proxy", "detail"} |->
                                      IF k = "proxy" THEN JString(<<"own">>)
                                      ELSE JString(<<"nope">>)]]
          [] u = BodyLong     -> [ok |-> TRUE, type |-> "object",
                                  props |-> [k \in {"pad"} |-> JString(<<Pad>>)]]
          [] u = BodyArray    -> [ok |-> TRUE, type |-> "array",
                                  props |-> [k \in {"0", "1"} |->
                                      IF k = "0" THEN [type |-> "number", text |-> <<"1">>]
                                      ELSE [type |-> "number", text |-> <<"2">>]]]
          [] u = BodyNumber   -> [ok |-> TRUE, type |-> "number",
                                  props |-> [k \in {} |-> JString(<<>>)]]
          [] OTHER            -> [ok |-> FALSE, type |-> "SyntaxError",
                                  props |-> [k \in {} |-> JString(<<>>)]]

----------------------------------------------------------------------------
(* Responses. *)

\* an Error: what the handler reads of it is its name and its message
AbortError == [name |-> "AbortError", message |-> "This operation was aborted"]

\* String(e) for an Error: its name, then its message when it has one
ErrorToString(e) == IF e.message = "" THEN e.name ELSE e.name \o ": " \o e.message

\* e?.message || String(e)
ErrorText(e) == IF e.message # "" THEN e.message ELSE ErrorToString(e)

\* the statuses a Response with a body cannot have
NullBodyStatus == {101, 103, 204, 205, 304}

\* what the Response constructor (and Response.json) throws for a status it
\* refuses: outside 200..599, or a null body status together with a body
InvalidStatus(status) == status < 200 \/ status > 599 \/ status \in NullBodyStatus

InvalidStatusError(status) ==
    IF status < 200 \/ status > 599
    THEN [name |-> "RangeError",
          message |-> "init[\"status\"] must be in the range of 200 to 599, inclusive."]
    ELSE [name |-> "TypeError",
          message |-> CASE status = 204 -> "Response constructor: Invalid response status code 204"
                        [] status = 205 -> "Response constructor: Invalid response status code 205"
                        [] status = 304 -> "Response constructor: Invalid response status code 304"
                        [] OTHER        -> "Response constructor: Invalid response status code"]

NoJson == [k \in {} |-> JString(<<>>)]

\* new Response(text, { status })
TextResponse(text, status) ==
    [status |-> status, statusText |-> "", headers |-> EmptyHeaders,
     body |-> [kind |-> "text", json |-> NoJson, bytes |-> text]]

\* new Response(buf, { status, statusText, headers })
BytesResponse(buf, status, statusText, headers) ==
    [status |-> status, statusText |-> statusText, headers |-> headers,
     body |-> [kind |-> "bytes", json |-> NoJson, bytes |-> buf]]

\* Response.json(data, { status, headers }): the body is the serialised
\* object, and content-type is set unless the headers given have one
JsonResponse(data, status, headers) ==
    [status |-> status, statusText |-> "",
     headers |-> IF HeadersHas(headers, "content-type") THEN headers
                 ELSE HeadersSet(headers, "content-type", "application/json"),
     body |-> [kind |-> "json", json |-> data, bytes |-> <<>>]]

TargetHeader(tgt) == [k \in {"x-proxy-target"} |-> tgt]

\* the catch of the first revision (lines 115-122): a plain-text body
ProxyErrorPlainText(tgt, e) ==
    [status |-> 502, statusText |-> "", headers |-> TargetHeader(tgt),
     body |-> [kind |-> "text", json |-> NoJson,
               bytes |-> <<"Proxy error to ">> \o tgt \o <<": ", ErrorText(e)>>]]

\* the outer catch, lines 278-283
ProxyError(tgt, e) ==
    JsonResponse(
        [k \in {"detail"} |-> JString(<<"Proxy error to ">> \o tgt \o <<": ", ErrorText(e)>>)],
        502, TargetHeader(tgt))

\* line 177
ConfigError == TextResponse(<<"API_BASE_URL env not set">>, 500)

\* the debug envelope, lines 221-236
DebugResponse(tgt, method, up, textPeek) ==
    IF InvalidStatus(up.status) THEN ProxyError(tgt, InvalidStatusError(up.status))
    ELSE JsonResponse(
        [k \in {"proxy"} |->
            [type |-> "object",
             props |-> [target |-> tgt, method |-> method, status |-> up.status,
                        statusText |-> up.statusText,
                        contentType |-> HeadersGetOrEmpty(up.headers, "content-type"),
                        headers |-> up.headers, bodyPreview |-> textPeek]]],
        up.status, TargetHeader(tgt))

HopByHop == {"connection", "transfer-encoding", "content-length", "content-encoding"}

\* a copy made after x-proxy-target is set: the upstream's own value wins
MirrorHeadersUpstreamWins(upHeaders, tgt) ==
    LET kept == {n \in DOMAIN upHeaders : toLowerCase(n) \notin HopByHop}
    IN  [k \in kept \cup {"x-proxy-target"} |-> IF k \in kept THEN upHeaders[k] ELSE tgt]

\* lines 238-249: the upstream headers but the hop-by-hop and encoding ones,
\* then x-proxy-target
MirrorHeaders(upHeaders, tgt) ==
    HeadersSet([k \in {n \in DOMAIN upHeaders : toLowerCase(n) \notin HopByHop} |-> upHeaders[k]],
               "x-proxy-target", tgt)

\* lines 251-259
EnsureContentType(headers, textPeek) ==
    IF HeadersHas(headers, "content-type") THEN headers
    ELSE LET t == Trim(textPeek)
         IN  HeadersSet(headers, "content-type",
                 IF StartsWith(t, "{") \/ StartsWith(t, "[")
                 THEN "application/json; charset=utf-8"
                 ELSE "text/plain; charset=utf-8")

\* upstreamType.includes("application/json"), over the content types of the model
IncludesJson(ct) == ct \in {"application/json", "application/json; charset=utf-8"}

Unreadable == [k \in {"detail"} |-> JString(<<"Upstream returned an unreadable body">>)]

\* a payload that puts the upstream text under "message"
ErrorPayloadAsMessage(up, buf) ==
    IF IncludesJson(HeadersGetOrEmpty(up.headers, "content-type"))
    THEN LET parsed == JSONParse(TextDecode(buf))
         IN  IF parsed.ok THEN parsed.props ELSE Unreadable
    ELSE [k \in {"message"} |-> JString(TextDecode(buf))]

\* a payload whose detail is the upstream text even when that is empty
ErrorPayloadNoFallback(up, buf) ==
    IF IncludesJson(HeadersGetOrEmpty(up.headers, "content-type"))
    THEN LET parsed == JSONParse(TextDecode(buf))
         IN  IF parsed.ok THEN parsed.props ELSE Unreadable
    ELSE [k \in {"detail"} |-> JString(TextDecode(buf))]

\* lines 263-270: the payload of a non-OK response
ErrorPayload(up, buf) ==
    IF IncludesJson(HeadersGetOrEmpty(up.headers, "content-type"))
    THEN LET parsed == JSONParse(TextDecode(buf))
         IN  IF parsed.ok THEN parsed.props ELSE Unreadable
    ELSE [k \in {"detail"} |->
            JString(IF TextDecode(buf) # <<>> THEN TextDecode(buf)
                    ELSE IF up.statusText # "" THEN <<up.statusText>>
                    ELSE <<"Upstream error">>)]

\* the payload alone, without a proxy member
CoercedNoProxy(tgt, method, up, payload) == payload

\* { ...payload, proxy: {...} }: the gateway's proxy replaces the payload's
CoercedProxyLast(tgt, method, up, payload) ==
    [k \in {"proxy"} \cup DOMAIN payload |->
        IF k # "proxy" THEN payload[k]
        ELSE [type |-> "object",
              props |-> [target |-> tgt, method |-> method, status |-> up.status,
                         statusText |-> up.statusText]]]

\* { proxy: {...}, ...payload }: a member of the payload replaces proxy
Coerced(tgt, method, up, payload) ==
    [k \in {"proxy"} \cup DOMAIN payload |->
        IF k \in DOMAIN payload THEN payload[k]
        ELSE [type |-> "object",
              props |-> [target |-> tgt, method |-> method, status |-> up.status,
                         statusText |-> up.statusText]]]

\* lines 261-275
CoercedResponse(tgt, method, up, buf, headers) ==
    IF InvalidStatus(up.status) THEN ProxyError(tgt, InvalidStatusError(up.status))
    ELSE JsonResponse(Coerced(tgt, method, up, ErrorPayload(up, buf)), up.status, headers)

\* line 277
PassThrough(tgt, up, buf, headers) ==
    IF InvalidStatus(up.status) THEN ProxyError(tgt, InvalidStatusError(up.status))
    ELSE BytesResponse(buf, up.status, up.statusText, headers)

\* upstream.ok
Ok(status) == status \in 200..299

\* lines 218-277: the response made of an upstream response whose body, buf,
\* has been read
BuildResponse(tgt, method, dbgFlag, up, buf) ==
    LET textPeek == TextDecode(SliceBytes(buf, PeekBytes))
        headers  == EnsureContentType(MirrorHeaders(up.headers, tgt), textPeek)
    IN  IF dbgFlag THEN DebugResponse(tgt, method, up, textPeek)
        ELSE IF ~Ok(up.status) THEN CoercedResponse(tgt, method, up, buf, headers)
        ELSE PassThrough(tgt, up, buf, headers)

----------------------------------------------------------------------------
(* The values the handler runs on. *)

\* process.env.API_BASE_URL: undefined, or a string
EnvUnset == [defined |-> FALSE, value |-> <<>>]
EnvValue(v) == [defined |-> TRUE, value |-> v]

ExampleBase == <<"https:", "/", "/", "api.example.com">>

\* a check that lets the empty string through
UnconfiguredUndefinedOnly(base) == ~base.defined

\* !API_BASE
Unconfigured(base) == ~base.defined \/ base.value = <<>>

NoError == [name |-> "", message |-> ""]

\* what a rejected fetch throws when no deadline fired
NetErrors ==
    {[name |-> "TypeError", message |-> "fetch failed"],
     [name |-> "Error", message |-> ""]}

\* what a body that breaks off while it is read throws
BodyError == [name |-> "TypeError", message |-> "terminated"]

ReasonPhrase(status) ==
    CASE status = 200 -> "OK"
      [] status = 204 -> "No Content"
      [] status = 304 -> "Not Modified"
      [] status = 404 -> "Not Found"
      [] status = 500 -> "Internal Server Error"
      [] OTHER        -> ""

UpstreamStatuses == {200, 204, 304, 404, 500}

NoUpstream == [status |-> 0, statusText |-> "", headers |-> EmptyHeaders, body |-> <<>>]
NoResponse == TextResponse(<<>>, 0)
NoBuf == [read |-> FALSE, bytes |-> <<>>]
NoInit == [method |-> "", headers |-> EmptyHeaders, body |-> NoBody]

\* one upstream call: fetch(url, { ...init, signal }) under a deadline of ms
Call(url, i, ms) ==
    [url |-> url, init |-> i, ms |-> ms, outcome |-> "pending", error |-> NoError]

Settle(cs, outcome, e) ==
    [cs EXCEPT ![Len(cs)] = [@ EXCEPT !.outcome = outcome, !.error = e]]

\* a catch that retries whatever was thrown
IsTimeoutAlways(e) == TRUE

\* a catch that takes fetch's TypeError for a timeout too
IsTimeoutOrTypeError(e) == e.name \in {"AbortError", "TypeError"}

\* line 209: e?.name === "AbortError"
IsTimeout(e) == e.name = "AbortError"

----------------------------------------------------------------------------
(* The handler, lines 176-284, one action per stretch between two awaits.  *)

\* lines 177-201 up to the first await: the configuration check, the
\* target, the deadline and the headers; a method with a body then waits
\* for req.arrayBuffer(), the others issue the first upstream call at once
Enter ==
    /\ pc = "start"
    /\ IF Unconfigured(apiBase)
       THEN /\ resp' = ConfigError
            /\ pc' = "done"
            /\ UNCHANGED <<dbg, target, timeoutMs, init, calls>>
       ELSE /\ dbg' = DebugFlag(req.query)
            /\ target' = ResolveTarget(apiBase.value, req.path, req.query)
            /\ timeoutMs' = FirstTimeout(req.method, req.headers)
            /\ IF Bodiless(req.method)
               THEN /\ init' = RequestInit(req.method, req.headers, NoBody)
                    /\ calls' = <<Call(target', init', timeoutMs')>>
                    /\ pc' = "fetch1"
               ELSE /\ init' = NoInit
                    /\ calls' = calls
                    /\ pc' = "readInbound"
            /\ resp' = resp
    /\ UNCHANGED <<apiBase, req, upstream, upstreamBuf, bodyUsed>>
    /\ UNCHANGED otherVars

\* line 198 resumes: req.arrayBuffer() delivered the inbound bytes; the
\* first upstream call is issued (line 207)
InboundBodyRead ==
    /\ pc = "readInbound"
    /\ bodyUsed' = TRUE
    /\ init' = RequestInit(req.method, req.headers, [present |-> TRUE, bytes |-> req.body])
    /\ calls' = <<Call(target, init', timeoutMs)>>
    /\ pc' = "fetch1"
    /\ UNCHANGED <<apiBase, req, dbg, target, timeoutMs, upstream, upstreamBuf, resp>>
    /\ UNCHANGED otherVars

\* line 198 rejects (the caller's upload broke off): no try encloses it, the
\* handler's promise rejects
InboundBodyFails ==
    /\ pc = "readInbound"
    /\ bodyUsed' = TRUE
    /\ pc' = "thrown"
    /\ UNCHANGED <<apiBase, req, dbg, target, timeoutMs, init, calls, upstream, upstreamBuf, resp>>
    /\ UNCHANGED otherVars

\* the first fetch resolves: the upstream's status line and headers are in
\* (line 207), the handler goes on to read the body (line 217)
Fetch1Responds(up) ==
    /\ pc = "fetch1"
    /\ calls' = Settle(calls, "response", NoError)
    /\ upstream' = up
    /\ pc' = "readUpstream"
    /\ UNCHANGED <<apiBase, req, dbg, target, timeoutMs, init, upstreamBuf, bodyUsed, resp>>
    /\ UNCHANGED otherVars

\* a retry that leaves the body out
Fetch1RejectsWithoutBody(e, how) ==
    /\ pc = "fetch1"
    /\ IF IsTimeout(e)
       THEN /\ calls' = Settle(calls, how, e)
                            \o <<Call(target, [init EXCEPT !.body = NoBody],
                                      RetryTimeout(timeoutMs))>>
            /\ pc' = "fetch2"
            /\ resp' = resp
       ELSE /\ calls' = Settle(calls, how, e)
            /\ resp' = ProxyError(target, e)
            /\ pc' = "done"
    /\ UNCHANGED <<apiBase, req, dbg, target, timeoutMs, init, upstream, upstreamBuf, bodyUsed>>
    /\ UNCHANGED otherVars

\* lines 208-214: the first fetch rejected with e, by the deadline firing
\* (how = "abort") or by a network failure (how = "error"); a timeout is
\* retried with the extended deadline, anything else goes to the outer catch
Fetch1Rejects(e, how) ==
    /\ pc = "fetch1"
    /\ IF IsTimeout(e)
       THEN /\ calls' = Settle(calls, how, e)
                            \o <<Call(target, init, RetryTimeout(timeoutMs))>>
            /\ pc' = "fetch2"
            /\ resp' = resp
       ELSE /\ calls' = Settle(calls, how, e)
            /\ resp' = ProxyError(target, e)
            /\ pc' = "done"
    /\ UNCHANGED <<apiBase, req, dbg, target, timeoutMs, init, upstream, upstreamBuf, bodyUsed>>
    /\ UNCHANGED otherVars

\* the first fetch fails on the network
Fetch1Fails == \E e \in NetErrors : Fetch1Rejects(e, "error")

\* line 168: the first deadline fires, controller.abort() rejects the fetch
\* with an AbortError
Fetch1DeadlineFires == Fetch1Rejects(AbortError, "abort")

\* the retry resolves (line 210)
Fetch2Responds(up) ==
    /\ pc = "fetch2"
    /\ calls' = Settle(calls, "response", NoError)
    /\ upstream' = up
    /\ pc' = "readUpstream"
    /\ UNCHANGED <<apiBase, req, dbg, target, timeoutMs, init, upstreamBuf, bodyUsed, resp>>
    /\ UNCHANGED otherVars

\* the retry rejects with e, a timeout or not: the outer catch, lines 278-283
Fetch2Rejects(e, how) ==
    /\ pc = "fetch2"
    /\ calls' = Settle(calls, how, e)
    /\ resp' = ProxyError(target, e)
    /\ pc' = "done"
    /\ UNCHANGED <<apiBase, req, dbg, target, timeoutMs, init, upstream, upstreamBuf, bodyUsed>>
    /\ UNCHANGED otherVars

Fetch2Fails == \E e \in NetErrors : Fetch2Rejects(e, "error")

Fetch2DeadlineFires == Fetch2Rejects(AbortError, "abort")

\* line 217 resumes with the whole upstream body; the rest of the handler
\* runs without another await
UpstreamBodyRead ==
    /\ pc = "readUpstream"
    /\ upstreamBuf' = [read |-> TRUE, bytes |-> upstream.body]
    /\ resp' = BuildResponse(target, init.method, dbg, upstream, upstream.body)
    /\ pc' = "done"
    /\ UNCHANGED <<apiBase, req, dbg, target, timeoutMs, init, calls, upstream, bodyUsed>>
    /\ UNCHANGED otherVars

\* line 217 rejects: the upstream body broke off; the outer catch
UpstreamBodyFails ==
    /\ pc = "readUpstream"
    /\ resp' = ProxyError(target, BodyError)
    /\ pc' = "done"
    /\ UNCHANGED <<apiBase, req, dbg, target, timeoutMs, init, calls, upstream, upstreamBuf, bodyUsed>>
    /\ UNCHANGED otherVars

----------------------------------------------------------------------------
(* The requests and upstream responses the handler is run on. *)

QLimit5   == <<"l", "i", "m", "i", "t", "=", "5">>
QDbg1     == <<"_", "_", "d", "b", "g", "=", "1">>
QDbg0     == <<"_", "_", "d", "b", "g", "=", "0">>

Request(method, path, query, headers, body) ==
    [method |-> method, path |-> path, query |-> query, headers |-> headers, body |-> body]

SomeQueries == {<<>>, QLimit5, QDbg1 \o <<"&">> \o QLimit5}

SomeInboundHeaders ==
    {EmptyHeaders,
     [k \in {"content-type", "host"} |->
        IF k = "host" THEN "console.example" ELSE "multipart/form-data; boundary=x"],
     [k \in {"accept", "authorization", "connection"} |->
        CASE k = "accept" -> "text/html"
          [] k = "authorization" -> "Bearer t"
          [] OTHER -> "keep-alive"]}

SomeInboundBodies == {<<>>, <<"{", "\"error\":\"bad\"", "}", BadByte>>}

SomeRequests ==
    {Request(m, <<<<"contacts">>>>, q, h, b) :
        m \in Methods, q \in SomeQueries, h \in SomeInboundHeaders, b \in SomeInboundBodies}

\* a response with a null body status has no body
Upstream(status, statusText, headers, body) ==
    [status |-> status, statusText |-> statusText, headers |-> headers,
     body |-> IF status \in NullBodyStatus THEN <<>> ELSE body]

SomeUpstreamHeaders ==
    {EmptyHeaders,
     [k \in {"content-type"} |-> "application/json"],
     [k \in {"content-type", "connection"} |->
        IF k = "connection" THEN "close" ELSE "text/plain"]}

SomeUpstreams ==
    {Upstream(st, ReasonPhrase(st), h, b) :
        st \in UpstreamStatuses, h \in SomeUpstreamHeaders,
        b \in {BodyEmpty, BodyText, BodyDetail, BodyNoDetail}}

\* a component that takes no part in a specification
Absent == <<>>

\* the other components take no part
OthersIdle == pair = Absent /\ panel = Absent /\ inbox = Absent /\ settings = Absent

\* the handler has not run
Fresh ==
    /\ pc = "start"
    /\ dbg = FALSE
    /\ target = <<>>
    /\ timeoutMs = 0
    /\ init = NoInit
    /\ calls = <<>>
    /\ upstream = NoUpstream
    /\ upstreamBuf = NoBuf
    /\ bodyUsed = FALSE
    /\ resp = NoResponse

Init ==
    /\ apiBase \in {EnvUnset, EnvValue(<<>>), EnvValue(ExampleBase \o <<"/">>)}
    /\ req \in SomeRequests
    /\ Fresh
    /\ OthersIdle

Next ==
    \/ Enter
    \/ InboundBodyRead
    \/ InboundBodyFails
    \/ pc = "fetch1" /\ \E up \in SomeUpstreams : Fetch1Responds(up)
    \/ Fetch1Fails
    \/ Fetch1DeadlineFires
    \/ pc = "fetch2" /\ \E up \in SomeUpstreams : Fetch2Responds(up)
    \/ Fetch2Fails
    \/ Fetch2DeadlineFires
    \/ UpstreamBodyRead
    \/ UpstreamBodyFails

Spec == Init /\ [][Next]_vars

\* a step of Enter, told by pc alone: Enter is enabled exactly when pc is
\* "start", and it is the only action that leaves "start"
EnterRuns == pc = "start" /\ pc' \in {"done", "fetch1", "readInbound"}

\* What the scheduling gives: the handler's synchronous stretch runs, the
\* caller's body arrives or its read rejects, and a timer armed by
\* setTimeout (line 168) fires unless clearTimeout (line 172) came first.
\* Nothing obliges the upstream to answer or to finish its body.
Fairness ==
    /\ WF_pc(EnterRuns)
    /\ WF_vars(InboundBodyRead \/ InboundBodyFails)
    /\ WF_vars(Fetch1DeadlineFires)
    /\ WF_vars(Fetch2DeadlineFires)

SpecFair == Spec /\ Fairness


----------------------------------------------------------------------------
(* The handler on every path and query of the bounds: the target and the   *)
(* upstream calls of a GET.                                                 *)

\* the "&"-separated pieces inbound queries are made of
QueryPieces ==
    {QLimit5,
     QDbg1,
     <<"_", "_", "d", "b", "g", "=", "0">>,
     <<"_", "_", "d", "b", "g", "=">>,
     <<"_", "_", "d", "b", "g">>,
     <<"%5F", "%5F", "d", "b", "g", "=", "1">>,
     <<"q", "=", "a", "%20", "b">>,
     <<"f">>,
     <<"x", "=", "%26", "_", "_", "d", "b", "g">>}

Queries == {Join(ps, "&") : ps \in SeqsUpTo(QueryPieces, MaxParams)}

\* path segments as Next.js hands them over, decoded
Segments == {<<"contacts">>, <<"a", " ", "b">>, <<"x", "/", "y">>}

Paths == SeqsUpTo(Segments, MaxSegs)

Bases == {ExampleBase, ExampleBase \o <<"/">>, ExampleBase \o <<"/", "/">>}

InitUrl ==
    /\ apiBase \in {EnvValue(b) : b \in Bases}
    /\ req \in {Request("GET", p, q, EmptyHeaders, <<>>) : p \in Paths, q \in Queries}
    /\ Fresh
    /\ OthersIdle

NextUrl ==
    \/ Enter
    \/ Fetch1DeadlineFires

SpecUrl == InitUrl /\ [][NextUrl]_vars

----------------------------------------------------------------------------
(* The handler on every inbound header set of the bounds: the outbound     *)
(* headers and the deadline of its upstream calls.                         *)

DeniedNames ==
    {"host", "connection", "transfer-encoding", "accept-encoding", "content-length",
     "x-forwarded-for"}

InboundNames == allow \cup DeniedNames

\* the values a header comes with: the c-th of its two
InboundValue(k, c) ==
    CASE k = "content-type" ->
            IF c = 1 THEN "application/json" ELSE "multipart/form-data; boundary=x"
      [] k = "accept"        -> IF c = 1 THEN "text/html" ELSE "*/*"
      [] k = "authorization" -> IF c = 1 THEN "Bearer t" ELSE "Basic u"
      [] k = "host"          -> "console.example"
      [] k = "connection"    -> "keep-alive"
      [] k = "cookie"        -> "sid=1"
      [] OTHER               -> "1"

InboundHeaderSets ==
    UNION {{[k \in S |-> InboundValue(k, c[k])] : c \in [S -> {1, 2}]} :
              S \in {T \in SUBSET InboundNames : Cardinality(T) <= MaxInboundHeaders}}

InitHdr ==
    /\ apiBase = EnvValue(ExampleBase)
    /\ req \in {Request(m, <<<<"contacts">>>>, <<>>, h, <<"{", "}">>) :
                   m \in Methods, h \in InboundHeaderSets}
    /\ Fresh
    /\ OthersIdle

NextHdr ==
    \/ Enter
    \/ InboundBodyRead
    \/ Fetch1DeadlineFires

SpecHdr == InitHdr /\ [][NextHdr]_vars

----------------------------------------------------------------------------
(* The handler on every upstream response of the bounds: the response it   *)
(* returns.                                                                 *)

UpstreamContentTypes ==
    {EmptyHeaders} \cup
    {[k \in {"content-type"} |-> ct] :
        ct \in {"application/json", "application/json; charset=utf-8", "text/plain"}}

UpstreamNames ==
    {"connection", "transfer-encoding", "content-length", "content-encoding",
     "x-proxy-target", "x-request-id", "vary"}

UpstreamValue(k) ==
    CASE k = "connection"        -> "close"
      [] k = "transfer-encoding" -> "chunked"
      [] k = "content-length"    -> "21"
      [] k = "content-encoding"  -> "br"
      [] k = "vary"              -> "accept-encoding"
      [] OTHER                   -> "1"

\* a header map of the upstream: x-proxy-target, being a URL, is text
UpstreamHeaderSets ==
    {[k \in DOMAIN ct \cup S |->
        IF k \in DOMAIN ct THEN ct[k]
        ELSE IF k = "x-proxy-target" THEN <<"https:", "/", "/", "other.example">>
        ELSE UpstreamValue(k)] :
     ct \in UpstreamContentTypes,
     S \in {T \in SUBSET UpstreamNames : Cardinality(T) <= MaxUpstreamHeaders}}

AllUpstreams ==
    {Upstream(st, txt, h, b) :
        st \in UpstreamStatuses, txt \in {"", "Status Text"}, h \in UpstreamHeaderSets,
        b \in UpstreamBodies}

InitResp ==
    /\ apiBase = EnvValue(ExampleBase)
    /\ req \in {Request(m, <<<<"contacts">>>>, q, EmptyHeaders, <<>>) :
                   m \in {"GET", "DELETE"}, q \in {<<>>, QDbg1, QDbg0}}
    /\ Fresh
    /\ OthersIdle

NextResp ==
    \/ Enter
    \/ InboundBodyRead
    \/ pc = "fetch1" /\ \E up \in AllUpstreams : Fetch1Responds(up)
    \/ Fetch1Fails
    \/ Fetch1DeadlineFires
    \/ pc = "fetch2" /\ \E up \in SomeUpstreams : Fetch2Responds(up)
    \/ Fetch2Fails
    \/ Fetch2DeadlineFires
    \/ UpstreamBodyRead
    \/ UpstreamBodyFails

SpecResp == InitResp /\ [][NextResp]_vars

----------------------------------------------------------------------------
(* Timeout and retry. *)

\* C1: a second upstream call is issued if and only if the first one ended
\* by its deadline firing, there is never a third, and a request that got
\* past the configuration check and has its response made 1 or 2 calls.
C1_RetryIffFirstTimedOut ==
    /\ Len(calls) <= 2
    /\ Len(calls) = 2 <=> (calls # <<>> /\ calls[1].outcome = "abort")
    /\ (pc = "done" /\ (apiBase.defined /\ apiBase.value # <<>>)) => Len(calls) \in {1, 2}

C1_Witness ==
    /\ pc = "done"
    /\ Len(calls) = 2
    /\ calls[1].outcome = "abort"
    /\ calls[2].outcome = "response"

\* the 502 envelope of the outer catch
IsProxyErrorEnvelope(r) ==
    /\ r.status = 502
    /\ r.body.kind = "json"
    /\ DOMAIN r.body.json = {"detail"}
    /\ Head(r.body.json["detail"].text) = "Proxy error to "

\* C2: when the first call timed out and the retry returned an upstream
\* response whose body was read, the caller gets the response made of it,
\* with its status and not the 502 envelope, and exactly one round trip was
\* a timeout.
C2_RetryResponseDelivered ==
    (/\ pc = "done"
     /\ Len(calls) = 2
     /\ calls[1].outcome = "abort"
     /\ calls[2].outcome = "response"
     /\ upstreamBuf.read)
    => /\ resp.status = upstream.status
       /\ ~IsProxyErrorEnvelope(resp)
       /\ Cardinality({i \in 1..Len(calls) : calls[i].outcome = "abort"}) = 1

\* C3: a first call that fails on the network, not by the deadline, is the
\* request's only call, and the response is a 502.
C3_NetworkFailureNotRetried ==
    (calls # <<>> /\ calls[1].outcome = "error")
    => /\ Len(calls) = 1
       /\ calls[1].error.name # "AbortError"
       /\ pc = "done"
       /\ resp.status = 502

C3_Witness ==
    /\ pc = "done"
    /\ calls # <<>>
    /\ calls[1].outcome = "error"
    /\ calls[1].error.name = "TypeError"

\* C4: when the last upstream call ended in a network failure or a timeout,
\* the response is a 502 whose JSON body has detail =
\* "Proxy error to <target>: <message>", the target being the URL called
\* and the message the error's text.
C4_NetworkFailureEnvelope ==
    (pc = "done" /\ calls # <<>> /\ calls[Len(calls)].outcome \in {"abort", "error"})
    => LET last == calls[Len(calls)]
           text == IF last.error.message # "" THEN last.error.message
                   ELSE ErrorToString(last.error)
       IN  /\ resp.status = 502
           /\ resp.body.kind = "json"
           /\ "detail" \in DOMAIN resp.body.json
           /\ resp.body.json["detail"]
                = JString(<<"Proxy error to ">> \o last.url \o <<": ", text>>)
           /\ last.url = ResolveTarget(apiBase.value, req.path, req.query)

C4_Witness ==
    /\ pc = "done"
    /\ Len(calls) = 2
    /\ calls[2].outcome = "abort"

\* C5: with API_BASE_URL unset or empty the handler makes no upstream call
\* and does not read the inbound body, and its response is a 500 saying
\* that the variable is not set.
C5_UnconfiguredFailsFast ==
    (~apiBase.defined \/ apiBase.value = <<>>)
    => /\ calls = <<>>
       /\ ~bodyUsed
       /\ pc \in {"start", "done"}
       /\ pc = "done" => /\ resp.status = 500
                         /\ resp.body.kind = "text"
                         /\ resp.body.bytes = <<"API_BASE_URL env not set">>

C5_Witness ==
    /\ pc = "done"
    /\ apiBase.defined
    /\ apiBase.value = <<>>
    /\ req.method = "POST"
    /\ req.body # <<>>
    /\ req.query # <<>>

\* C7: every upstream call of a GET or HEAD request carries no body, and
\* every upstream call of a request with another method carries the inbound
\* bytes.
C7_BodyForwarding ==
    \A i \in 1..Len(calls) :
        IF req.method \in {"GET", "HEAD"}
        THEN ~calls[i].init.body.present
        ELSE /\ calls[i].init.body.present
             /\ calls[i].init.body.bytes = req.body

C7_Witness ==
    /\ Len(calls) = 2
    /\ req.method = "DELETE"
    /\ req.body # <<>>
    /\ calls[2].init.body.bytes = req.body

----------------------------------------------------------------------------
(* Outbound headers. *)

\* C6: the header names of every upstream call are in the allow-list, so
\* host, connection, transfer-encoding, accept-encoding and content-length
\* are never among them, and every allow-listed inbound header is there
\* with its inbound value.
C6_OnlyAllowListedHeaders ==
    \A i \in 1..Len(calls) :
        LET out  == calls[i].init.headers
            list == {"authorization", "content-type", "accept", "cookie",
                     "x-requested-with", "x-api-key", "user-agent", "accept-language",
                     "origin", "referer"}
        IN  /\ DOMAIN out \subseteq list
            /\ DOMAIN out \cap {"host", "connection", "transfer-encoding",
                                "accept-encoding", "content-length"} = {}
            /\ \A k \in DOMAIN req.headers \cap list :
                  k \in DOMAIN out /\ out[k] = req.headers[k]

C6_Witness ==
    /\ Len(calls) = 2
    /\ {"host", "content-length", "authorization"} \subseteq DOMAIN req.headers
    /\ req.headers["authorization"] = "Basic u"

----------------------------------------------------------------------------
(* Error coercion. *)

----------------------------------------------------------------------------
(* The upstream URL. *)

\* the query of a URL: what follows its first "?"
QueryOf(url) ==
    IF \A i \in 1..Len(url) : url[i] # "?" THEN <<>>
    ELSE LET i == CHOOSE j \in 1..Len(url) : url[j] = "?" /\ \A k \in 1..(j - 1) : url[k] # "?"
         IN  SubSeq(url, i + 1, Len(url))

NotDbg(p) == p.name # DbgName

\* C9: the query of every upstream call has no parameter named __dbg,
\* neither literally nor once decoded, and has every other inbound
\* parameter, name and value, in the inbound order.
C9_DebugFlagNeverForwarded ==
    \A i \in 1..Len(calls) :
        LET sent == QueryOf(calls[i].url)
        IN  /\ \A n \in 1..Len(Split(sent, "&")) : Head(Split(Split(sent, "&")[n], "=")) # DbgName
            /\ ~HasParam(searchParams(sent), DbgName)
            /\ searchParams(sent) = SelectSeq(searchParams(req.query), NotDbg)

C9_Witness ==
    /\ Len(calls) = 2
    /\ Len(searchParams(req.query)) = 2
    /\ searchParams(req.query)[1].name = DbgName
    /\ searchParams(req.query)[2].name = DbgName
    /\ searchParams(req.query)[1].value # searchParams(req.query)[2].value

\* C10: for a query q without the reserved flag, the URL of every upstream
\* call is the base without its trailing slashes, "/", the segments each
\* percent-encoded and joined with "/", and "?" with q as received when q is
\* not empty.
C10_TargetVerbatim ==
    \A i \in 1..Len(calls) :
        ~HasParam(searchParams(req.query), DbgName)
        => calls[i].url =
              StripTrailingSlashes(apiBase.value) \o <<"/">>
              \o Join([n \in 1..Len(req.path) |-> encodeURIComponent(req.path[n])], "/")
              \o (IF req.query # <<>> THEN <<"?">> \o req.query ELSE <<>>)

----------------------------------------------------------------------------
\* C11: the handler never ends by throwing: whatever fails (reading the
\* inbound body, the upstream call on either attempt, reading the upstream
\* body, building the response), its promise never rejects.
C11_NeverThrows == pc # "thrown"

----------------------------------------------------------------------------
\* the handler has ended: it returned a response, or its promise rejected
Ended == pc \in {"done", "thrown"}

\* C12: with timers that fire, every request with a configured base is
\* eventually answered: a wait on the upstream, for the response headers or
\* for the body, always comes to an end.
C12_EventuallyAnswered == (~Unconfigured(apiBase)) ~> Ended

\* the part of C12 the deadline does cover: the wait for the response of
\* either call ends
HeadersWaitEnds == (pc \in {"fetch1", "fetch2"}) ~> (pc \notin {"fetch1", "fetch2"})

----------------------------------------------------------------------------
\* the handler has ended on an upstream response, of the first call or of
\* the retry, whose body it read in full
UpstreamProcessed ==
    /\ pc = "done"
    /\ calls # <<>>
    /\ calls[Len(calls)].outcome = "response"
    /\ upstreamBuf.read

\* C13: outside debug mode, for a 2xx upstream response without a
\* content-type the returned content-type is application/json; charset=utf-8
\* when the body's text, trimmed, begins with "{" or "[", and
\* text/plain; charset=utf-8 otherwise (an empty body included); a
\* content-type the upstream did send is returned unchanged.
C13_ContentTypeInferred ==
    (UpstreamProcessed /\ ~dbg /\ Ok(upstream.status))
    => HeadersGetOrEmpty(resp.headers, "content-type") =
          IF HeadersHas(upstream.headers, "content-type")
          THEN upstream.headers["content-type"]
          ELSE LET t == Trim(TextDecode(upstream.body))
               IN  IF StartsWith(t, "{") \/ StartsWith(t, "[")
                   THEN "application/json; charset=utf-8"
                   ELSE "text/plain; charset=utf-8"

\* C14: outside debug mode, for every upstream response, 2xx or not, the
\* returned headers have none of connection, transfer-encoding,
\* content-length and content-encoding, and have every other upstream header
\* with its upstream value.
C14_HeadersMirrored ==
    (UpstreamProcessed /\ ~dbg)
    => /\ \A k \in DOMAIN resp.headers : toLowerCase(k) \notin HopByHop
       /\ \A k \in DOMAIN upstream.headers :
            toLowerCase(k) \notin HopByHop
            => /\ k \in DOMAIN resp.headers
               /\ resp.headers[k] = upstream.headers[k]

\* C15: every response made once the target is resolved (pass-through,
\* coerced error, debug envelope, 502 envelope) has x-proxy-target equal to
\* the resolved target, also when the upstream sent an x-proxy-target of its
\* own.
C15_TargetHeaderAlways ==
    (pc = "done" /\ ~Unconfigured(apiBase))
    => /\ target = ResolveTarget(apiBase.value, req.path, req.query)
       /\ HeadersHas(resp.headers, "x-proxy-target")
       /\ resp.headers["x-proxy-target"] = target

\* a 2xx response passed through whose upstream had an x-proxy-target of
\* its own, naming another URL
C15_Witness ==
    /\ UpstreamProcessed
    /\ ~dbg
    /\ resp.status = 200
    /\ resp.body.kind = "bytes"
    /\ HeadersHas(upstream.headers, "x-proxy-target")
    /\ upstream.headers["x-proxy-target"] # target

\* C16: outside debug mode, for a 2xx upstream response the body returned is
\* the upstream body byte for byte, whatever its length.
C16_BodyPassedThrough ==
    (UpstreamProcessed /\ ~dbg /\ Ok(upstream.status))
    => /\ resp.body.kind = "bytes"
       /\ resp.body.bytes = upstream.body

\* C17: whenever an upstream response was obtained, on the first call or on
\* the retry, the status returned is the upstream status, in every mode.
C17_StatusMirrored == UpstreamProcessed => resp.status = upstream.status

\* the debug envelope made of the upstream response up
IsDebugEnvelope(r, up) ==
    /\ r.body.kind = "json"
    /\ DOMAIN r.body.json = {"proxy"}
    /\ r.body.json["proxy"].type = "object"
    /\ r.body.json["proxy"].props =
          [target |-> target, method |-> init.method, status |-> up.status,
           statusText |-> up.statusText,
           contentType |-> HeadersGetOrEmpty(up.headers, "content-type"),
           headers |-> up.headers,
           bodyPreview |-> TextDecode(SliceBytes(up.body, PeekBytes))]

\* C18: whenever the query has the reserved __dbg flag and an upstream
\* response was obtained, the response is the debug envelope with the
\* upstream status; without the flag it never is.
C18_DebugEnvelopeIffFlag ==
    UpstreamProcessed
    => IF HasParam(searchParams(req.query), DbgName)
       THEN resp.status = upstream.status /\ IsDebugEnvelope(resp, upstream)
       ELSE ~IsDebugEnvelope(resp, upstream)

----------------------------------------------------------------------------
(* Deadlines. *)

ReadOnlyMethods == {"GET", "HEAD", "OPTIONS"}
MutatingMethods == {"POST", "PUT", "PATCH", "DELETE"}

\* the inbound content-type of the request
InboundContentType == HeadersGetOrEmpty(req.headers, "content-type")

\* the content-types a request comes with, as header maps: none, JSON,
\* multipart
ContentTypeChoices ==
    {EmptyHeaders} \cup {[k \in {"content-type"} |-> InboundValue(k, c)] : c \in {1, 2}}

\* the deadline of the first call is 90 s for a multipart content-type,
\* otherwise 45 s for a mutating method and 30 s for a read-only one
DeadlineAsListed ==
    calls[1].ms = IF isMultipart(InboundContentType) THEN 90000
                  ELSE IF req.method \in MutatingMethods THEN 45000
                  ELSE 30000

\* no request has a longer first deadline than this multipart one
MultipartLongest ==
    isMultipart(InboundContentType)
    => \A m \in Methods, h \in ContentTypeChoices : FirstTimeout(m, h) <= calls[1].ms

\* C19 as claimed: the first deadline of a request with a read-only method
\* is strictly shorter than that of every request with a mutating method, a
\* multipart request's is the longest, and the values are 90 s, 45 s, 30 s.
C19_ReadOnlyShorterThanMutating ==
    calls # <<>>
    => /\ DeadlineAsListed
       /\ MultipartLongest
       /\ req.method \in ReadOnlyMethods
          => \A m \in MutatingMethods, h \in ContentTypeChoices :
                calls[1].ms < FirstTimeout(m, h)

\* C19 as amended: the values are 90 s for a multipart content-type whatever
\* the method, otherwise 45 s mutating and 30 s read-only; a multipart
\* request's is the longest; a read-only request whose content-type is not
\* multipart has a strictly shorter deadline than every mutating request.
C19_DeadlineByCategory ==
    calls # <<>>
    => /\ DeadlineAsListed
       /\ MultipartLongest
       /\ (req.method \in ReadOnlyMethods /\ ~isMultipart(InboundContentType))
          => \A m \in MutatingMethods, h \in ContentTypeChoices :
                calls[1].ms < FirstTimeout(m, h)

\* a read-only request with a multipart content-type: 90 s
C19_Witness ==
    /\ calls # <<>>
    /\ req.method = "GET"
    /\ isMultipart(InboundContentType)
    /\ calls[1].ms = 90000

\* C20: in every category the retry's deadline is strictly greater than the
\* first attempt's: it is the smaller of the first plus 30 s and 120 s, so
\* never more than 120 s.
C20_RetryDeadlineLonger ==
    Len(calls) = 2
    => /\ calls[2].ms > calls[1].ms
       /\ calls[2].ms = IF calls[1].ms + 30000 < 120000 THEN calls[1].ms + 30000
                        ELSE 120000
       /\ calls[2].ms <= 120000

\* the retry of a multipart request: 90 s, then the 120 s cap
C20_Witness ==
    /\ Len(calls) = 2
    /\ calls[1].ms = 90000
    /\ calls[2].ms = 120000

----------------------------------------------------------------------------
\* C21: every outbound request has an accept header: the inbound accept
\* value when the inbound request has one, and the default
\* "application/json, */*;q=0.1" exactly when it has none.
C21_AcceptAlwaysSent ==
    \A i \in 1..Len(calls) :
        LET out == calls[i].init.headers
        IN  /\ "accept" \in DOMAIN out
            /\ out["accept"] = IF "accept" \in DOMAIN req.headers
                               THEN req.headers["accept"]
                               ELSE "application/json, */*;q=0.1"

\* a request with headers but no accept: both of its calls carry the default
C21_Witness ==
    /\ Len(calls) = 2
    /\ "accept" \notin DOMAIN req.headers
    /\ "authorization" \in DOMAIN req.headers
    /\ calls[2].init.headers["accept"] = "application/json, */*;q=0.1"

----------------------------------------------------------------------------
(* Coerced error bodies. *)

\* the upstream content-type as the handler reads it (line 219)
UpstreamType == HeadersGetOrEmpty(upstream.headers, "content-type")

\* the handler has ended on a non-2xx upstream response whose content-type
\* does not say JSON
NonJsonError ==
    /\ UpstreamProcessed
    /\ ~Ok(upstream.status)
    /\ UpstreamType \notin {"application/json", "application/json; charset=utf-8"}

\* the upstream body text if not empty, else the status text if not empty,
\* else "Upstream error"
DetailText ==
    IF TextDecode(upstream.body) # <<>> THEN TextDecode(upstream.body)
    ELSE IF upstream.statusText # "" THEN <<upstream.statusText>>
    ELSE <<"Upstream error">>

\* C22 as claimed: for a non-2xx upstream response whose content-type is not
\* JSON the body returned is the JSON object {"detail": d} and nothing else,
\* d being the upstream text, else the status text, else "Upstream error".
C22_DetailOnly ==
    NonJsonError
    => /\ resp.body.kind = "json"
       /\ DOMAIN resp.body.json = {"detail"}
       /\ resp.body.json["detail"] = JString(DetailText)

\* C22 as amended: outside debug mode, and for a status a response with a
\* body can have, the body returned is the JSON object with the two members
\* proxy and detail, detail being d as above, under the upstream status; in
\* debug mode it is the debug envelope, and for a status that cannot carry
\* a body (304) the 502 envelope.
C22_ProxyAndDetail ==
    NonJsonError
    => IF InvalidStatus(upstream.status) THEN IsProxyErrorEnvelope(resp)
       ELSE IF dbg THEN IsDebugEnvelope(resp, upstream)
       ELSE /\ resp.status = upstream.status
            /\ resp.body.kind = "json"
            /\ DOMAIN resp.body.json = {"proxy", "detail"}
            /\ resp.body.json["detail"] = JString(DetailText)

\* upstream 500 text/plain "Internal Server Error"
C22_Witness ==
    /\ NonJsonError
    /\ ~dbg
    /\ upstream.status = 500
    /\ UpstreamType = "text/plain"
    /\ upstream.body = <<"Internal Server Error">>
    /\ resp.status = 500
    /\ resp.body.json["detail"] = JString(<<"Internal Server Error">>)

\* JSON.parse of the whole upstream body
ParsedUpstream == JSONParse(TextDecode(upstream.body))

\* every member of the upstream object is in the body returned, with its
\* upstream value
UpstreamKeysKept ==
    /\ resp.body.kind = "json"
    /\ \A k \in DOMAIN ParsedUpstream.props :
          /\ k \in DOMAIN resp.body.json
          /\ resp.body.json[k] = ParsedUpstream.props[k]

\* C23 as claimed: for a non-2xx upstream response whose body is a JSON
\* object, every key of that object is in the body returned with its
\* upstream value.
C23_JsonObjectMerged ==
    (/\ UpstreamProcessed
     /\ ~Ok(upstream.status)
     /\ ParsedUpstream.ok
     /\ ParsedUpstream.type = "object")
    => UpstreamKeysKept

\* C23 as amended: the same outside debug mode and for an upstream
\* content-type that includes application/json.
C23_DeclaredJsonObjectMerged ==
    (/\ UpstreamProcessed
     /\ ~Ok(upstream.status)
     /\ ParsedUpstream.ok
     /\ ParsedUpstream.type = "object"
     /\ ~dbg
     /\ UpstreamType \in {"application/json", "application/json; charset=utf-8"})
    => UpstreamKeysKept

\* an upstream JSON error with a proxy member of its own: it is returned
C23_Witness ==
    /\ UpstreamProcessed
    /\ ~dbg
    /\ upstream.status = 404
    /\ UpstreamType = "application/json"
    /\ upstream.body = BodyOwnProxy
    /\ resp.status = 404
    /\ resp.body.json["proxy"] = JString(<<"own">>)
    /\ resp.body.json["detail"] = JString(<<"nope">>)

\* the upstream body has a byte that is no valid UTF-8
NotUtf8 == \E i \in 1..Len(upstream.body) : upstream.body[i] = BadByte

\* C24: outside debug mode, for a non-2xx upstream response whose body is
\* unreadable (declared JSON but not parseable, or not valid UTF-8 under any
\* content-type) the detail returned is exactly "Upstream returned an
\* unreadable body", under the upstream status.
C24_UnreadableBody ==
    (/\ UpstreamProcessed
     /\ ~dbg
     /\ ~Ok(upstream.status)
     /\ \/ NotUtf8
        \/ /\ UpstreamType \in {"application/json", "application/json; charset=utf-8"}
           /\ ~ParsedUpstream.ok)
    => /\ resp.status = upstream.status
       /\ resp.body.kind = "json"
       /\ "detail" \in DOMAIN resp.body.json
       /\ resp.body.json["detail"] = JString(<<"Upstream returned an unreadable body">>)

----------------------------------------------------------------------------
(* Several invocations of the handler at once.  Each has its own locals    *)
(* (lines 179-218 declare them with const and let inside handler), each    *)
(* call of fetchWithTimeout its own AbortController and timer (lines       *)
(* 167-168); API_BASE (line 137) is the one module-level binding, a const. *)

\* how many invocations run at once
Invocations == 2

Ids == 1..Invocations

\* one controller at module level, shared by every call
SharedController(i, k) == <<0, 0>>

\* line 167: new AbortController(), one for the k-th call of invocation i
Controller(i, k) == <<i, k>>

\* the locals of invocation i on request r, before it runs
FreshLocals(i, r) ==
    [id |-> i, req |-> r, pc |-> "start", dbg |-> FALSE, target |-> <<>>, timeoutMs |-> 0,
     init |-> NoInit, calls |-> <<>>, signal |-> <<>>, abortedBy |-> <<>>,
     upstream |-> NoUpstream, bodyRead |-> FALSE, resp |-> NoResponse]

\* fetchWithTimeout(target, init, ms), lines 166-174: a call under a
\* controller of its own
Issue(h, i, ms) ==
    [h EXCEPT !.init = i,
              !.calls = @ \o <<Call(h.target, i, ms)>>,
              !.signal = Controller(h.id, Len(h.calls) + 1)]

\* lines 177-201 for one invocation
Entered(h) ==
    LET t == [h EXCEPT !.dbg = DebugFlag(h.req.query),
                       !.target = ResolveTarget(ExampleBase, h.req.path, h.req.query),
                       !.timeoutMs = FirstTimeout(h.req.method, h.req.headers)]
    IN  IF Bodiless(h.req.method)
        THEN [Issue(t, RequestInit(h.req.method, h.req.headers, NoBody), t.timeoutMs)
                 EXCEPT !.pc = "fetch1"]
        ELSE [t EXCEPT !.pc = "readInbound"]

\* line 198 resumes, line 207 issues the first call
InboundRead(h) ==
    [Issue(h, RequestInit(h.req.method, h.req.headers,
                          [present |-> TRUE, bytes |-> h.req.body]), h.timeoutMs)
        EXCEPT !.pc = "fetch1"]

\* lines 207, 210: the call in flight resolves with up
Responded(h, up) ==
    [h EXCEPT !.calls = Settle(@, "response", NoError), !.upstream = up,
              !.pc = "readUpstream"]

\* lines 208-214, 278-283: the call in flight rejects with e; by is the
\* controller that aborted it, if one did
Rejected(h, e, how, by) ==
    LET g == [h EXCEPT !.calls = Settle(@, how, e),
                       !.abortedBy = IF how = "abort" THEN @ \o <<by>> ELSE @]
    IN  IF h.pc = "fetch1" /\ IsTimeout(e)
        THEN [Issue(g, h.init, RetryTimeout(h.timeoutMs)) EXCEPT !.pc = "fetch2"]
        ELSE [g EXCEPT !.resp = ProxyError(h.target, e), !.pc = "done"]

\* lines 217-277
BodyRead(h) ==
    [h EXCEPT !.bodyRead = TRUE, !.pc = "done",
              !.resp = BuildResponse(h.target, h.init.method, h.dbg, h.upstream,
                                     h.upstream.body)]

\* line 217 rejects
BodyFailed(h) == [h EXCEPT !.resp = ProxyError(h.target, BodyError), !.pc = "done"]

InFlight(h) == h.pc \in {"fetch1", "fetch2"}

\* invocation i alone takes a step to h
Steps(i, h) ==
    /\ pair' = [pair EXCEPT ![i] = h]
    /\ UNCHANGED <<handlerVars, panel, inbox, settings>>

PairEnter(i) == pair[i].pc = "start" /\ Steps(i, Entered(pair[i]))

PairInboundBodyRead(i) == pair[i].pc = "readInbound" /\ Steps(i, InboundRead(pair[i]))

PairResponds(i, up) == InFlight(pair[i]) /\ Steps(i, Responded(pair[i], up))

PairFails(i, e) == InFlight(pair[i]) /\ Steps(i, Rejected(pair[i], e, "error", <<>>))

\* line 168: the timer of the call invocation i has in flight fires and
\* aborts its controller; every fetch that holds this controller's signal
\* rejects with an AbortError
PairDeadlineFires(i) ==
    /\ InFlight(pair[i])
    /\ pair' = [j \in Ids |->
                  IF InFlight(pair[j]) /\ pair[j].signal = pair[i].signal
                  THEN Rejected(pair[j], AbortError, "abort", pair[i].signal)
                  ELSE pair[j]]
    /\ UNCHANGED <<handlerVars, panel, inbox, settings>>

PairUpstreamBodyRead(i) == pair[i].pc = "readUpstream" /\ Steps(i, BodyRead(pair[i]))

PairUpstreamBodyFails(i) == pair[i].pc = "readUpstream" /\ Steps(i, BodyFailed(pair[i]))

\* the requests and the upstream responses of the invocations
PairRequests ==
    {Request("GET", <<<<"contacts">>>>, QLimit5,
             [k \in {"accept"} |-> "text/html"], <<>>),
     Request("POST", <<<<"a", " ", "b">>>>, QDbg1,
             [k \in {"content-type"} |-> "multipart/form-data; boundary=x"], <<"{", "}">>)}

PairUpstreams ==
    {Upstream(200, "OK", EmptyHeaders, BodyText),
     Upstream(500, "", [k \in {"content-type"} |-> "application/json"], BodyDetail)}

\* the handler of the other specifications takes no part
HandlerIdle ==
    /\ apiBase = EnvValue(ExampleBase)
    /\ req = Request("GET", <<>>, <<>>, EmptyHeaders, <<>>)
    /\ Fresh

InitPair ==
    /\ HandlerIdle
    /\ pair \in {[i \in Ids |-> FreshLocals(i, rs[i])] : rs \in [Ids -> PairRequests]}
    /\ panel = Absent /\ inbox = Absent /\ settings = Absent

NextPair ==
    \E i \in Ids :
        \/ PairEnter(i)
        \/ PairInboundBodyRead(i)
        \/ \E up \in PairUpstreams : PairResponds(i, up)
        \/ \E e \in {[name |-> "TypeError", message |-> "fetch failed"]} : PairFails(i, e)
        \/ PairDeadlineFires(i)
        \/ PairUpstreamBodyRead(i)
        \/ PairUpstreamBodyFails(i)

SpecPair == InitPair /\ [][NextPair]_vars

\* what invocation h would have as its target, deadline, outbound headers,
\* retry decision and response had it run alone on its request and met the
\* same answers from the upstream
AsIfAlone(h) ==
    LET tgt   == ResolveTarget(ExampleBase, h.req.path, h.req.query)
        first == FirstTimeout(h.req.method, h.req.headers)
        n     == Len(h.calls)
    IN  /\ h.pc # "start" => h.target = tgt /\ h.timeoutMs = first
        /\ n <= 2
        /\ \A k \in 1..n :
              /\ h.calls[k].url = tgt
              /\ h.calls[k].init.method = h.req.method
              /\ h.calls[k].init.headers = pickHeaders(h.req.headers)
              /\ h.calls[k].ms = IF k = 1 THEN first ELSE RetryTimeout(first)
        /\ n = 2 <=> (n >= 1 /\ h.calls[1].outcome = "abort")
        /\ h.pc = "done"
           => h.resp = IF h.bodyRead
                       THEN BuildResponse(tgt, h.req.method, DebugFlag(h.req.query),
                                          h.upstream, h.upstream.body)
                       ELSE IF h.calls[n].outcome = "response"
                       THEN ProxyError(tgt, BodyError)
                       ELSE ProxyError(tgt, h.calls[n].error)

\* every abort of a call of h came from the timer of that very call
AbortedByOwnTimer(h) ==
    /\ Len(h.abortedBy) = Cardinality({k \in 1..Len(h.calls) : h.calls[k].outcome = "abort"})
    /\ \A k \in 1..Len(h.abortedBy) : h.abortedBy[k] = <<h.id, k>>

\* C25: of several requests handled at once, in any interleaving, each has
\* the target, outbound headers, deadline, retry decision and response it
\* would have alone, and a deadline that fires aborts only the call in
\* flight of its own request.
C25_InvocationsIndependent ==
    \A i \in DOMAIN pair : AsIfAlone(pair[i]) /\ AbortedByOwnTimer(pair[i])

\* two different requests have ended: the first was retried after its own
\* deadline, the second answered on its only call
C25_Witness ==
    /\ pair # Absent
    /\ pair[1].pc = "done" /\ pair[2].pc = "done"
    /\ pair[1].req # pair[2].req
    /\ pair[1].abortedBy = <<<<1, 1>>>>
    /\ Len(pair[2].calls) = 1
    /\ pair[2].bodyRead

----------------------------------------------------------------------------
\* the handler has returned a coerced non-2xx response (lines 262-275)
CoercedReturned ==
    /\ UpstreamProcessed
    /\ ~dbg
    /\ ~Ok(upstream.status)
    /\ resp.status = upstream.status

\* the gateway's own account of the exchange
GatewayView ==
    [type |-> "object",
     props |-> [target |-> target, method |-> req.method, status |-> upstream.status,
                statusText |-> upstream.statusText]]

\* the upstream body, declared JSON, parses to a value with a proxy member
UpstreamHasProxyKey ==
    /\ UpstreamType \in {"application/json", "application/json; charset=utf-8"}
    /\ ParsedUpstream.ok
    /\ "proxy" \in DOMAIN ParsedUpstream.props

\* C26 as claimed: in every coerced non-2xx response the proxy member is
\* the gateway's own view (target, method, upstream status), whatever keys
\* the upstream JSON has, a proxy key included.
C26_ProxyIsGatewayView ==
    CoercedReturned
    => /\ "proxy" \in DOMAIN resp.body.json
       /\ resp.body.json["proxy"] = GatewayView

\* C26 as amended: the same whenever the upstream JSON has no proxy key of
\* its own; when it has one, the proxy member returned is the upstream's.
C26_ProxyUnlessUpstreamHasOne ==
    CoercedReturned
    => /\ "proxy" \in DOMAIN resp.body.json
       /\ resp.body.json["proxy"] = IF UpstreamHasProxyKey
                                    THEN ParsedUpstream.props["proxy"]
                                    ELSE GatewayView

\* an upstream JSON error with keys of its own, none of them proxy
C26_Witness ==
    /\ CoercedReturned
    /\ upstream.status = 500
    /\ upstream.body = BodyNoDetail
    /\ UpstreamType = "application/json"
    /\ req.method = "DELETE"
    /\ DOMAIN resp.body.json = {"proxy", "error"}
    /\ resp.body.json["proxy"].props.status = 500

----------------------------------------------------------------------------
\* C27: a retry after a timeout of the first attempt goes to the same
\* resolved target with the same method, the same filtered headers and the
\* same body bytes as the first attempt.
C27_RetrySameRequest ==
    Len(calls) = 2
    => /\ calls[1].outcome = "abort"
       /\ calls[2].url = calls[1].url
       /\ calls[2].url = target
       /\ calls[2].init.method = calls[1].init.method
       /\ calls[2].init.headers = calls[1].init.headers
       /\ calls[2].init.body = calls[1].init.body

\* the retry of a PUT with a body and headers of its own
C27_Witness ==
    /\ Len(calls) = 2
    /\ calls[2].init.method = "PUT"
    /\ calls[2].init.body.present
    /\ calls[2].init.body.bytes # <<>>
    /\ "authorization" \in DOMAIN calls[2].init.headers
    /\ calls[2].ms # calls[1].ms

----------------------------------------------------------------------------
(* DocumentsPanel of the thread page (thread/[id]/page.tsx): its magic
   link, the auto-open effect and bulkAdd.  panel holds the component's
   state, its didAutoOpen ref, the POSTs to docs/magic-link it has issued
   and every run of bulkAdd with the magicLink its closure captured. *)
MaxCreates == 2
MaxBulkRuns == 1
MaxEffectRuns == 2

\* line 121: no link yet; lines 187-192: the link built from a token
NoLink == "null"
PortalUrl == "origin/portal/token"

\* lines 113-131, 167: the component as it is mounted
MountedPanel(openBulk) ==
    [openBulk |-> openBulk, items |-> "empty", loading |-> FALSE,
     error |-> "null", info |-> "null", creatingLink |-> FALSE,
     magicLink |-> NoLink, showBulk |-> FALSE, bulkText |-> "",
     didAutoOpen |-> FALSE, effectRuns |-> 0, mountLoad |-> "idle",
     creates |-> <<>>, runs |-> <<>>]

\* a step of the panel
PanelSteps(p) ==
    /\ panel' = p
    /\ UNCHANGED <<handlerVars, pair, inbox, settings>>

\* the effects of the mount have run
Mounted == panel.effectRuns > 0 /\ panel.mountLoad # "idle"

\* lines 180-185: createMagicLink up to its await, the POST is in flight
StartCreate(p, by) ==
    [p EXCEPT !.creatingLink = TRUE, !.error = "null",
              !.creates = Append(@, [by |-> by, state |-> "flight"])]

\* lines 139-146: loadDocs up to its await
StartLoadDocs(p) == [p EXCEPT !.loading = TRUE, !.error = "null"]

\* lines 147-153: loadDocs after its await
EndLoadDocs(p, ok, items) ==
    IF ok THEN [p EXCEPT !.items = items, !.loading = FALSE]
    ELSE [p EXCEPT !.error = "load failed", !.loading = FALSE]

\* lines 156-158: the mount starts loading the checklist
PanelMountLoad ==
    /\ panel.mountLoad = "idle"
    /\ PanelSteps([StartLoadDocs(panel) EXCEPT !.mountLoad = "flight"])

\* lines 147-153: the checklist requested by the mount arrives, or fails
PanelMountLoaded(ok, items) ==
    /\ panel.mountLoad = "flight"
    /\ PanelSteps([EndLoadDocs(panel, ok, items) EXCEPT !.mountLoad = "done"])

\* lines 168-177: the auto-open effect runs, at mount with the props of the
\* mount and again whenever openBulkOnMount / autoCreateLink (both the
\* page's openBulk, lines 784-785) change or the effect is replayed
PanelAutoOpenEffect(openBulk) ==
    /\ panel.effectRuns < MaxEffectRuns
    /\ panel.effectRuns = 0 => openBulk = panel.openBulk
    /\ LET p == [panel EXCEPT !.openBulk = openBulk, !.effectRuns = @ + 1]
       IN  IF p.didAutoOpen \/ ~openBulk
           THEN PanelSteps(p)
           ELSE /\ Len(panel.creates) < MaxCreates
                /\ PanelSteps(StartCreate([p EXCEPT !.showBulk = TRUE,
                                                    !.didAutoOpen = TRUE],
                                          "effect"))

\* lines 162, 347, 404: the bulk dialog is opened
PanelOpenBulk ==
    /\ Mounted
    /\ ~panel.showBulk
    /\ PanelSteps([panel EXCEPT !.showBulk = TRUE])

\* line 540: Cancel
PanelCancelBulk ==
    /\ panel.showBulk
    /\ PanelSteps([panel EXCEPT !.showBulk = FALSE])

\* lines 533-535: the textarea is edited
PanelTypeBulk(text) ==
    /\ panel.showBulk
    /\ text # panel.bulkText
    /\ PanelSteps([panel EXCEPT !.bulkText = text])

\* lines 353-354 and 410: "Create upload link"; the button of the header is
\* disabled while creatingLink, the one of the empty list is not
PanelClickCreate ==
    /\ Mounted
    /\ ~panel.creatingLink \/ (panel.items = "empty" /\ ~panel.loading)
    /\ Len(panel.creates) < MaxCreates
    /\ PanelSteps(StartCreate(panel, "click"))

\* lines 269-272: a bulkAdd that awaited creation k goes on to
\* draftInitialDocRequest, which posts docs/kickoff (lines 236-239)
Resume(p, k) ==
    [p EXCEPT !.runs = [r \in DOMAIN @ |->
        IF @[r].pc = "createLink" /\ @[r].awaits = k
        THEN [@[r] EXCEPT !.pc = "kickoff"]
        ELSE @[r]]]

\* lines 186-193, 196-198: the POST to docs/magic-link is answered
PanelCreateResponds(k, hasToken) ==
    /\ k \in DOMAIN panel.creates
    /\ panel.creates[k].state = "flight"
    /\ PanelSteps(Resume([panel EXCEPT
            !.magicLink = IF hasToken THEN PortalUrl ELSE NoLink,
            !.info = "Upload link created.",
            !.creatingLink = FALSE,
            !.creates[k].state = "ok"], k))

\* lines 194-198: the POST to docs/magic-link fails
PanelCreateFails(k) ==
    /\ k \in DOMAIN panel.creates
    /\ panel.creates[k].state = "flight"
    /\ PanelSteps(Resume([panel EXCEPT
            !.error = "create failed",
            !.creatingLink = FALSE,
            !.creates[k].state = "failed"], k))

\* lines 546-547, 250-261: "Add all" starts bulkAdd; the run keeps the
\* magicLink of the render it was created in
PanelClickBulkAdd ==
    /\ Mounted
    /\ panel.showBulk
    /\ panel.bulkText # ""
    /\ Len(panel.runs) < MaxBulkRuns
    /\ PanelSteps([panel EXCEPT !.runs =
            Append(@, [magicLink |-> panel.magicLink, pc |-> "bulkPost",
                       awaits |-> 0])])

\* lines 263-265: bulk-add answered, the dialog closes and loadDocs starts
PanelBulkPostResponds(r) ==
    /\ r \in DOMAIN panel.runs
    /\ panel.runs[r].pc = "bulkPost"
    /\ PanelSteps(StartLoadDocs([panel EXCEPT !.showBulk = FALSE, !.bulkText = "",
                                              !.runs[r].pc = "loadDocs"]))

\* lines 276-278: bulk-add failed
PanelBulkPostFails(r) ==
    /\ r \in DOMAIN panel.runs
    /\ panel.runs[r].pc = "bulkPost"
    /\ PanelSteps([panel EXCEPT !.error = "bulk-add failed", !.runs[r].pc = "done"])

\* lines 265-272: loadDocs settled; "make sure a client link exists" tests
\* the magicLink of the run's closure and creates a link when it is null
PanelBulkDocsLoaded(r, ok, items) ==
    /\ r \in DOMAIN panel.runs
    /\ panel.runs[r].pc = "loadDocs"
    /\ LET p == [EndLoadDocs(panel, ok, items) EXCEPT !.info = "Added documents."]
       IN  IF panel.runs[r].magicLink = NoLink
           THEN /\ Len(panel.creates) < MaxCreates
                /\ PanelSteps(StartCreate([p EXCEPT
                        !.runs[r].pc = "createLink",
                        !.runs[r].awaits = Len(panel.creates) + 1], "bulkAdd"))
           ELSE PanelSteps([p EXCEPT !.runs[r].pc = "kickoff"])

\* lines 232-243, 275: docs/kickoff settled; a failure falls back to
\* messages/draft-initial, a success ends the run
PanelKickoffSettles(r, ok) ==
    /\ r \in DOMAIN panel.runs
    /\ panel.runs[r].pc = "kickoff"
    /\ PanelSteps([panel EXCEPT !.runs[r].pc = IF ok THEN "done" ELSE "draftInitial"])

\* lines 243-248, 275: the fallback settled, either way the run ends
PanelDraftInitialSettles(r) ==
    /\ r \in DOMAIN panel.runs
    /\ panel.runs[r].pc = "draftInitial"
    /\ PanelSteps([panel EXCEPT !.runs[r].pc = "done"])

InitPanel ==
    /\ HandlerIdle
    /\ panel \in {MountedPanel(openBulk) : openBulk \in BOOLEAN}
    /\ pair = Absent /\ inbox = Absent /\ settings = Absent

NextPanel ==
    \/ PanelMountLoad
    \/ \E ok \in BOOLEAN, items \in {"empty", "some"} : PanelMountLoaded(ok, items)
    \/ \E openBulk \in BOOLEAN : PanelAutoOpenEffect(openBulk)
    \/ PanelOpenBulk
    \/ PanelCancelBulk
    \/ \E text \in {"", "lines"} : PanelTypeBulk(text)
    \/ PanelClickCreate
    \/ \E k \in 1..MaxCreates, hasToken \in BOOLEAN : PanelCreateResponds(k, hasToken)
    \/ \E k \in 1..MaxCreates : PanelCreateFails(k)
    \/ PanelClickBulkAdd
    \/ \E r \in 1..MaxBulkRuns : PanelBulkPostResponds(r)
    \/ \E r \in 1..MaxBulkRuns : PanelBulkPostFails(r)
    \/ \E r \in 1..MaxBulkRuns, ok \in BOOLEAN, items \in {"empty", "some"} :
            PanelBulkDocsLoaded(r, ok, items)
    \/ \E r \in 1..MaxBulkRuns, ok \in BOOLEAN : PanelKickoffSettles(r, ok)
    \/ \E r \in 1..MaxBulkRuns : PanelDraftInitialSettles(r)

SpecPanel == InitPanel /\ [][NextPanel]_vars

\* the creation requests still in flight
CreatesInFlight == {k \in DOMAIN panel.creates : panel.creates[k].state = "flight"}

\* the creation requests issued by the auto-open effect
CreatesByEffect == {k \in DOMAIN panel.creates : panel.creates[k].by = "effect"}

\* C28: bulkAdd posts to docs/magic-link only when no creation is in flight:
\* no request issued by bulkAdd is in flight together with an earlier one;
\* and the auto-open effect issues at most one creation request per mount.
C28_NoSecondCreation ==
    /\ \A k \in CreatesInFlight :
            panel.creates[k].by = "bulkAdd"
            => \A j \in CreatesInFlight : j >= k
    /\ Cardinality(CreatesByEffect) <= 1

\* the part of C28 about the effect alone, which the ref guarantees
C28_EffectCreatesOnce == Cardinality(CreatesByEffect) <= 1

----------------------------------------------------------------------------
(* approveLatestDraft of the inbox page (inbox/page.tsx, lines 99-170).
   inbox holds the page's info and error, the position of the one run
   followed, the thread the backend answered with and the approve
   requests sent. *)
MaxMessages == 3

\* line 20: the directions of a thread message
Directions == {"DRAFT", "OUTBOUND", "INBOUND"}

\* line 22: created_at is an ISO string; the second names the instant of the
\* first in another zone
IsoStrings == {"2024-05-01T00:00:00Z", "2024-05-01T02:00:00+02:00",
               "2024-05-02T00:00:00Z"}

\* lines 137: new Date(s).getTime(), in seconds since 2024-05-01T00:00:00Z
DateGetTime(s) ==
    CASE s = "2024-05-01T00:00:00Z" -> 0
      [] s = "2024-05-01T02:00:00+02:00" -> 0
      [] s = "2024-05-02T00:00:00Z" -> 86400

\* the threads the backend may answer with: every message has an id of its own
Threads ==
    UNION {{[i \in 1..n |-> [id |-> i, direction |-> f[i][1], created_at |-> f[i][2]]] :
                f \in [1..n -> Directions \X IsoStrings]} : n \in 0..MaxMessages}

\* the bodies of the thread response as res.json() yields them (lines
\* 106-111): undefined when the body is not JSON, else an object that may
\* have a detail and may have messages, an array or something else
NoMessages == [kind |-> "absent", items |-> <<>>]
ThreadBodies ==
    {[kind |-> "undefined", hasDetail |-> FALSE, messages |-> NoMessages]}
    \cup {[kind |-> "object", hasDetail |-> d, messages |-> NoMessages] : d \in BOOLEAN}
    \cup {[kind |-> "object", hasDetail |-> FALSE, messages |-> [kind |-> "other", items |-> <<>>]]}
    \cup {[kind |-> "object", hasDetail |-> FALSE, messages |-> [kind |-> "array", items |-> t]] :
            t \in Threads}

\* lines 123-129: tj.messages when it is an array, else []
MessagesOf(tj) ==
    IF tj.kind = "object" /\ tj.messages.kind = "array" THEN tj.messages.items ELSE <<>>

\* line 131: messages.filter(m => m.direction === "DRAFT")
RECURSIVE FilterDrafts(_)
FilterDrafts(ms) ==
    IF ms = <<>> THEN <<>>
    ELSE IF Head(ms).direction = "DRAFT"
         THEN <<Head(ms)>> \o FilterDrafts(Tail(ms))
         ELSE FilterDrafts(Tail(ms))

\* a comparator that puts the older draft first
CompareOldestFirst(a, b) == DateGetTime(a.created_at) - DateGetTime(b.created_at)

\* lines 137-138: the comparator of the sort, newest first
CompareDrafts(a, b) == DateGetTime(b.created_at) - DateGetTime(a.created_at)

\* Array.prototype.sort is stable: x goes behind every element it does not
\* have to precede
RECURSIVE InsertSorted(_, _)
InsertSorted(x, sorted) ==
    IF sorted = <<>> THEN <<x>>
    ELSE IF CompareDrafts(x, Head(sorted)) < 0
         THEN <<x>> \o sorted
         ELSE <<Head(sorted)>> \o InsertSorted(x, Tail(sorted))

\* lines 136-139: drafts.sort(...)
RECURSIVE SortDrafts(_)
SortDrafts(ds) ==
    IF ds = <<>> THEN <<>>
    ELSE InsertSorted(ds[Len(ds)], SortDrafts(SubSeq(ds, 1, Len(ds) - 1)))

\* a step of the inbox page
InboxSteps(x) ==
    /\ inbox' = x
    /\ UNCHANGED <<handlerVars, pair, panel, settings>>

\* the page before the button is pressed
InboxIdle ==
    [pc |-> "idle", info |-> "null", error |-> "null", threadOk |-> FALSE,
     tj |-> [kind |-> "undefined", hasDetail |-> FALSE, messages |-> NoMessages],
     approves |-> <<>>]

\* lines 246, 100-105: the button starts approveLatestDraft, which clears the
\* banners and fetches the thread
InboxClickApprove ==
    /\ inbox.pc = "idle"
    /\ InboxSteps([inbox EXCEPT !.pc = "thread", !.info = "null", !.error = "null"])

\* lines 106-146: the thread response arrived with status ok or not and body
\* tj; a failure is thrown to the catch, a thread without drafts ends the
\* run, otherwise the newest draft is approved
InboxThreadResponds(ok, tj) ==
    /\ inbox.pc = "thread"
    /\ LET x == [inbox EXCEPT !.threadOk = ok, !.tj = tj]
           drafts == FilterDrafts(MessagesOf(tj))
       IN  IF ~ok
           THEN InboxSteps([x EXCEPT !.pc = "done", !.error = "Approve failed"])
           ELSE IF Len(drafts) = 0
           THEN InboxSteps([x EXCEPT !.pc = "done", !.info = "No draft to approve"])
           ELSE InboxSteps([x EXCEPT !.pc = "approve",
                               !.approves = Append(@, SortDrafts(drafts)[1].id)])

\* lines 103, 166-169: the thread fetch itself rejected
InboxThreadRejects ==
    /\ inbox.pc = "thread"
    /\ InboxSteps([inbox EXCEPT !.pc = "done", !.error = "Approve failed"])

\* lines 147-165: the approve response arrived
InboxApproveResponds(ok) ==
    /\ inbox.pc = "approve"
    /\ InboxSteps(IF ok THEN [inbox EXCEPT !.pc = "done", !.info = "Draft approved"]
                  ELSE [inbox EXCEPT !.pc = "done", !.error = "Approve failed"])

\* lines 144, 166-169: the approve fetch rejected
InboxApproveRejects ==
    /\ inbox.pc = "approve"
    /\ InboxSteps([inbox EXCEPT !.pc = "done", !.error = "Approve failed"])

InitInbox ==
    /\ HandlerIdle
    /\ inbox = InboxIdle
    /\ pair = Absent /\ panel = Absent /\ settings = Absent

NextInbox ==
    \/ InboxClickApprove
    \/ \E ok \in BOOLEAN, tj \in ThreadBodies : InboxThreadResponds(ok, tj)
    \/ InboxThreadRejects
    \/ \E ok \in BOOLEAN : InboxApproveResponds(ok)
    \/ InboxApproveRejects

SpecInbox == InitInbox /\ [][NextInbox]_vars

\* the drafts of the thread that was answered
ThreadDrafts ==
    {m \in {inbox.tj.messages.items[i] : i \in DOMAIN inbox.tj.messages.items} :
        m.direction = "DRAFT"}

\* the thread fetch succeeded and the thread has a draft
ApprovableThread ==
    /\ inbox.threadOk
    /\ inbox.tj.kind = "object"
    /\ inbox.tj.messages.kind = "array"
    /\ ThreadDrafts # {}

\* C29: an approve request is sent only after a successful thread fetch of a
\* thread with a draft; then exactly one is sent, for a draft whose
\* created_at is the latest among the thread's drafts; after a failed fetch
\* or without a draft none is sent.
C29_ApprovesNewestDraft ==
    /\ Len(inbox.approves) <= 1
    /\ inbox.approves # <<>> => ApprovableThread
    /\ inbox.pc \in {"approve", "done"} /\ ApprovableThread
       => /\ Len(inbox.approves) = 1
          /\ \E m \in ThreadDrafts :
                /\ m.id = inbox.approves[1]
                /\ \A d \in ThreadDrafts :
                        DateGetTime(d.created_at) <= DateGetTime(m.created_at)

\* an approve went out for the newest draft of a thread whose last draft is
\* an older one and that holds a later message that is no draft
C29_Witness ==
    /\ inbox.pc = "done"
    /\ Len(inbox.approves) = 1
    /\ Len(inbox.tj.messages.items) = 3
    /\ inbox.tj.messages.items[1].direction = "DRAFT"
    /\ inbox.tj.messages.items[1].created_at = "2024-05-02T00:00:00Z"
    /\ inbox.tj.messages.items[2].direction = "DRAFT"
    /\ inbox.tj.messages.items[2].created_at = "2024-05-01T02:00:00+02:00"
    /\ inbox.tj.messages.items[3].direction = "INBOUND"
    /\ inbox.approves[1] = 1

----------------------------------------------------------------------------
(* The settings page (settings/page.tsx): fetchSettings, save and what the
   page renders.  settings holds the page's state, the position of the
   request under way and the outcome of the save that ran last. *)

\* lines 12, 22: the checkboxes of the form
CheckboxKeys == {"require_approval_initial", "include_signature"}

\* lines 11-24: the settings an answer of the backend may hold
OrgSettings == [CheckboxKeys -> BOOLEAN]

\* line 56: useState(null), and a value set by setS with the call it came from
NullSettings == [isNull |-> TRUE, from |-> "none", v |-> [k \in CheckboxKeys |-> FALSE]]
SetS(from, v) == [isNull |-> FALSE, from |-> from, v |-> v]

\* line 83: { ...s, ...patch } for the patch { [key]: checked }
Optimistic(v, key, checked) == [v EXCEPT ![key] = checked]

\* lines 53-57: the page as it is constructed
SettingsConstructed ==
    [loading |-> TRUE, saving |-> FALSE, error |-> "null", s |-> NullSettings,
     lastSaved |-> "null", pc |-> "constructed",
     run |-> [state |-> "none", key |-> "include_signature", checked |-> FALSE,
              putOk |-> FALSE, reloadOk |-> FALSE]]

\* a step of the settings page
SettingsSteps(x) ==
    /\ settings' = x
    /\ UNCHANGED <<handlerVars, pair, panel, inbox>>

\* lines 61-62: fetchSettings up to its await
StartFetchSettings(x) == [x EXCEPT !.loading = TRUE, !.error = "null"]

\* lines 63-72: fetchSettings after its await
EndFetchSettings(x, ok, data) ==
    IF ok THEN [x EXCEPT !.s = SetS("server", data), !.loading = FALSE]
    ELSE [x EXCEPT !.error = "reload failed", !.loading = FALSE]

\* lines 110-112: the form is rendered
FormShown == ~settings.loading /\ settings.error = "null" /\ ~settings.s.isNull

\* lines 106-108: the mount effect calls fetchSettings
SettingsMount ==
    /\ settings.pc = "constructed"
    /\ SettingsSteps([StartFetchSettings(settings) EXCEPT !.pc = "mount"])

\* lines 63-72: the GET of the mount settles
SettingsMountSettles(ok, data) ==
    /\ settings.pc = "mount"
    /\ SettingsSteps([EndFetchSettings(settings, ok, data) EXCEPT !.pc = "idle"])

\* lines 132-139, 78-93: a checkbox is toggled: onCheckbox sets the key and
\* calls save, which shows the optimistic settings and sends the PUT
SettingsToggle(key) ==
    /\ settings.pc = "idle"
    /\ FormShown
    /\ ~settings.saving
    /\ LET checked == ~settings.s.v[key]
       IN  SettingsSteps([settings EXCEPT
                !.saving = TRUE, !.error = "null",
                !.s = SetS("optimistic", Optimistic(settings.s.v, key, checked)),
                !.pc = "put",
                !.run = [state |-> "running", key |-> key, checked |-> checked,
                         putOk |-> FALSE, reloadOk |-> FALSE]])

\* lines 92-94, 99-101: the PUT is answered with the settings now stored
SettingsPutResponds(next) ==
    /\ settings.pc = "put"
    /\ SettingsSteps([settings EXCEPT
            !.s = SetS("server", next), !.lastSaved = "time",
            !.saving = FALSE, !.pc = "idle",
            !.run.state = "done", !.run.putOk = TRUE])

\* lines 95-98, 61-62: the PUT fails: setError, then fetchSettings runs up to
\* its await
SettingsPutFails ==
    /\ settings.pc = "put"
    /\ SettingsSteps(StartFetchSettings([settings EXCEPT
            !.error = "save failed", !.pc = "reload"]))

\* lines 63-72, 99-101: the reload settles and save completes
SettingsReloadSettles(ok, data) ==
    /\ settings.pc = "reload"
    /\ SettingsSteps([EndFetchSettings(settings, ok, data) EXCEPT
            !.saving = FALSE, !.pc = "idle",
            !.run.state = "done", !.run.reloadOk = ok])

InitSettings ==
    /\ HandlerIdle
    /\ settings = SettingsConstructed
    /\ pair = Absent /\ panel = Absent /\ inbox = Absent

NextSettings ==
    \/ SettingsMount
    \/ \E ok \in BOOLEAN, data \in OrgSettings : SettingsMountSettles(ok, data)
    \/ \E key \in CheckboxKeys : SettingsToggle(key)
    \/ \E next \in OrgSettings : SettingsPutResponds(next)
    \/ SettingsPutFails
    \/ \E ok \in BOOLEAN, data \in OrgSettings : SettingsReloadSettles(ok, data)

SpecSettings == InitSettings /\ [][NextSettings]_vars

\* a save has just completed after its PUT failed
SaveCompletedAfterFailedPut ==
    /\ settings.run.state = "done"
    /\ ~settings.run.putOk
    /\ ~settings.saving

\* the optimistic settings stay only when the reload failed too
C30_OptimisticOnlyIfReloadFailed ==
    SaveCompletedAfterFailedPut /\ settings.s.from = "optimistic"
    => ~settings.run.reloadOk

\* C30: when the PUT of save fails, the error is non-null at the moment save
\* completes, whether or not the reload succeeded, and the optimistic
\* settings are the current ones only if the reload failed.
C30_PutFailureReported ==
    /\ SaveCompletedAfterFailedPut => settings.error # "null"
    /\ C30_OptimisticOnlyIfReloadFailed

====
